---- MODULE Spec2Model ----
(***************************************************************************)
(* A model of simulation.py (PySimMIBCI): the peak-parameter resolver      *)
(* set_peak_amplitudes, the trial scheduler generate_when and the epoch    *)
(* builders generate_what / generate_what_failed.                          *)
(*                                                                         *)
(* Python lists are mutable objects reached through references, so the     *)
(* peak tables are modelled over an explicit heap: a table entry holds a   *)
(* reference, and heap[ref] is the triple [cf, pw, bw] it points to.       *)
(* Relative powers are kept in thousandths (0.4 is 400) and the reduction  *)
(* in percent, so that 0.4*(1-reduction) is an exact integer.              *)
(***************************************************************************)
EXTENDS Integers, Sequences, FiniteSets, TLC

VARIABLES
    heap,               \* ref -> <<cf, pw, bw>>: every live Python list
    user_peak_params,   \* label -> ref: the caller's base table
    call,               \* the last call of set_peak_amplitudes and its result
    prev,               \* the call before it: its arguments and what it returned
    pc,                 \* where the simulation script stands
    events_info,        \* class id + 1 -> duration in ms of that class's trials
    N_trials,
    sfreq,
    include_rest,
    include_baseline,
    trials_ID,          \* the permuted class ids, one per scheduled trial
    events,             \* the events array: rows <<onset, 0, class id>>
    cnt,                \* rows written so far
    i,                  \* turns of the scheduling loop taken
    current_time,       \* the running sample clock
    what,               \* the call of generate_what and its result
    failed,             \* the call of generate_what_failed and its result
    fpc,                \* which of the two fatigue functions have run
    n_times,            \* source_simulator.n_times: samples of the session
    fatigue_start,      \* fraction of the session at which fatigue starts, in percent
    registered          \* the add_data calls the source simulator received

peakVars == <<heap, user_peak_params, call, prev>>
whenVars == <<events_info, N_trials, sfreq, include_rest, include_baseline,
              trials_ID, events, cnt, i, current_time>>
schedVars == <<pc, whenVars, what, failed>>
fatigueVars == <<fpc, n_times, fatigue_start, registered>>
vars == <<peakVars, schedVars, fatigueVars>>

\* ------------------------------------------------------------------ bounds
MaxTasks == 2
MaxClasses == 2
MaxTrials == 5
MaxTimes == 8

\* --------------------------------------------------------------- constants
\* 0.4, the fixed reference level of relative power, in thousandths
PowerRef == 400

\* the defaults of generate_when, in ms
rest_duration == 2000
baseline_duration == 5000

\* trial durations in ms and sampling rates the script may ask for
DurationsMs == {1000, 1003}
SfreqSet == {250}

\* p_failed, in percent: a float in the range (0, 1)
FailedPercents == {50, 90}

LH == "G_precentral-lh"
RH == "G_precentral-rh"
OtherLabel == "G_postcentral-lh"

\* the order in which a base table lists its labels (dict insertion order)
LabelOrder == <<LH, RH, OtherLabel>>

TaskNames == {"MI/left", "MI/right", "rest"}

\* reduction, in percent: a float in the range (0, 1)
Reductions == {25, 50}

\* the base triple [cf, pw, bw] a label comes with
BaseTriple(label) ==
    CASE label = LH -> <<10, 150, 4>>
      [] label = RH -> <<11, 200, 4>>
      [] OTHER      -> <<20, 250, 6>>

\* ----------------------------------------------------------------- helpers
Range(s) == {s[k] : k \in DOMAIN s}

SetMax(S) == CHOOSE x \in S : \A y \in S : y <= x

\* the sequences over S of length 0..n
SeqsUpTo(S, n) == UNION {[1..k -> S] : k \in 0..n}

\* position of the last occurrence of t in the sequence s
LastPos(s, t) == SetMax({k \in DOMAIN s : s[k] = t})

\* position of label in the list of labels
IndexIn(s, x) == CHOOSE k \in DOMAIN s : s[k] = x

\* 0.4*(1-reduction), in thousandths
Reduced(r) == (PowerRef * (100 - r)) \div 100

\* the triples a table of references points to
DerefTable(h, table) ==
    [l \in DOMAIN table |-> [t \in DOMAIN table[l] |-> h[table[l][t]]]]

\* ----------------------------------------------------- set_peak_amplitudes
\* user_peak_params[label][:] binds the entry to a fresh list, not to the
\* base list itself
SliceAlias(src, fresh) == src
SliceCopy(src, fresh) == fresh

\* lines 66-71: one fresh copy of the base triple per (label, task); a task
\* named twice overwrites its own key, so the last copy is the one kept
CopyLoop(h, upp, tasks) ==
    LET present == SelectSeq(LabelOrder, LAMBDA l : l \in DOMAIN upp)
        nt      == Len(tasks)
        first   == SetMax(DOMAIN h \cup {0}) + 1
        fresh(l, k) == first + (IndexIn(present, l) - 1) * nt + (k - 1)
        new     == {<<l, k>> : l \in DOMAIN upp, k \in 1..nt}
        owner(x) == present[((x - first) \div nt) + 1]
        h2      == [x \in DOMAIN h \cup {fresh(p[1], p[2]) : p \in new} |->
                       IF x \in DOMAIN h THEN h[x] ELSE h[upp[owner(x)]]]
        table   == [l \in DOMAIN upp |->
                       [t \in Range(tasks) |->
                           SliceCopy(upp[l], fresh(l, LastPos(tasks, t)))]]
    IN  [heap |-> h2, table |-> table]

\* the rest branch written with the key of the branch above it
PeakWritesRestKey(tasks, r) ==
    (IF "MI/left" \in Range(tasks)
        THEN << <<LH, "MI/left", PowerRef>>, <<RH, "MI/left", Reduced(r)>> >>
        ELSE <<>>)
    \o
    (IF "MI/right" \in Range(tasks)
        THEN << <<RH, "MI/right", PowerRef>>, <<LH, "MI/right", Reduced(r)>> >>
        ELSE <<>>)
    \o
    (IF "rest" \in Range(tasks) /\ "MI/right" \in Range(tasks)
        THEN << <<RH, "MI/right", PowerRef>>, <<LH, "MI/right", PowerRef>> >>
        ELSE <<>>)

\* lines 72-82: the assignments of index 1, in program order
PeakWrites(tasks, r) ==
    (IF "MI/left" \in Range(tasks)
        THEN << <<LH, "MI/left", PowerRef>>, <<RH, "MI/left", Reduced(r)>> >>
        ELSE <<>>)
    \o
    (IF "MI/right" \in Range(tasks)
        THEN << <<RH, "MI/right", PowerRef>>, <<LH, "MI/right", Reduced(r)>> >>
        ELSE <<>>)
    \o
    (IF "rest" \in Range(tasks)
        THEN << <<RH, "rest", PowerRef>>, <<LH, "rest", PowerRef>> >>
        ELSE <<>>)

\* a write to a label the table lacks is skipped instead of raising
RECURSIVE ApplyWritesSkipMissing(_, _, _, _)
ApplyWritesSkipMissing(h, table, ws, k) ==
    IF k > Len(ws) THEN [heap |-> h, err |-> FALSE]
    ELSE IF ws[k][1] \notin DOMAIN table
        THEN ApplyWritesSkipMissing(h, table, ws, k + 1)
    ELSE ApplyWritesSkipMissing(
             [h EXCEPT ![table[ws[k][1]][ws[k][2]]][2] = ws[k][3]],
             table, ws, k + 1)

\* the writes are applied one by one; a label missing from the table raises
\* KeyError and the writes made so far stay in the heap
RECURSIVE ApplyWrites(_, _, _, _)
ApplyWrites(h, table, ws, k) ==
    IF k > Len(ws) THEN [heap |-> h, err |-> FALSE]
    ELSE IF ws[k][1] \notin DOMAIN table THEN [heap |-> h, err |-> TRUE]
    ELSE ApplyWrites([h EXCEPT ![table[ws[k][1]][ws[k][2]]][2] = ws[k][3]],
                     table, ws, k + 1)

\* set_peak_amplitudes(MI_tasks, user_peak_params, reduction)
SetPeakAmplitudes(h, upp, tasks, r) ==
    LET c == CopyLoop(h, upp, tasks)
        w == ApplyWrites(c.heap, c.table, PeakWrites(tasks, r), 1)
    IN  [heap |-> w.heap, table |-> c.table, err |-> w.err]

\* --------------------------------------------- the caller of the resolver
NoTable == [l \in {} |-> 0]

NoCall ==
    [made |-> FALSE, tasks |-> <<>>, reduction |-> 0, err |-> FALSE,
     table |-> NoTable, returned |-> NoTable, written |-> FALSE]

\* the references a table holds
TableRefs(table) == {table[l][t] : <<l, t>> \in
                        UNION {{l} \X DOMAIN table[l] : l \in DOMAIN table}}

BaseRefs == Range(user_peak_params)

\* lists nothing refers to any more are collected
Collect(h, live) == [x \in DOMAIN h \cap live |-> h[x]]

NoWhat ==
    [called |-> FALSE, err |-> FALSE, MI_tasks |-> <<>>, MI_duration |-> 0,
     epoched |-> NoTable]

NoFailed ==
    [called |-> FALSE, err |-> FALSE, MI_tasks |-> <<>>, MI_duration |-> 0,
     reduction |-> 0, p_failed |-> 0, bad |-> {}, epoched |-> NoTable]

\* no source simulator yet
FatigueIdle ==
    /\ fpc = "none"
    /\ n_times = 0
    /\ fatigue_start = 0
    /\ registered = <<>>

\* nothing scheduled yet
SchedIdle ==
    /\ pc = "idle"
    /\ events_info = <<>>
    /\ N_trials = 0
    /\ sfreq = 0
    /\ include_rest = FALSE
    /\ include_baseline = FALSE
    /\ trials_ID = <<>>
    /\ events = <<>>
    /\ cnt = 0
    /\ i = 0
    /\ current_time = 0
    /\ what = NoWhat
    /\ failed = NoFailed

\* a base table with any of the three labels, each with its base triple
InitPeak ==
    /\ \E L \in SUBSET Range(LabelOrder) :
          /\ user_peak_params = [l \in L |-> IndexIn(LabelOrder, l)]
          /\ heap = [x \in {IndexIn(LabelOrder, l) : l \in L} |->
                        BaseTriple(LabelOrder[x])]
    /\ call = NoCall
    /\ prev = NoCall
    /\ SchedIdle
    /\ FatigueIdle

\* one call of set_peak_amplitudes with the arguments tasks and r; the caller
\* has let go of the table of the call before; on KeyError nothing is
\* returned and the half-built table is dropped
DoCall(tasks, r, before) ==
    LET res == SetPeakAmplitudes(Collect(heap, BaseRefs),
                                 user_peak_params, tasks, r)
        tbl == IF res.err THEN NoTable ELSE res.table
    IN  /\ call' = [made |-> TRUE, tasks |-> tasks, reduction |-> r,
                    err |-> res.err, table |-> tbl,
                    returned |-> DerefTable(res.heap, tbl),
                    written |-> FALSE]
        /\ prev' = [before EXCEPT !.table = NoTable,
                                  !.written = (before.made /\
                                      DerefTable(heap, before.table) #
                                          before.returned)]
        /\ heap' = Collect(res.heap, BaseRefs \cup TableRefs(tbl))
        /\ UNCHANGED <<user_peak_params, schedVars, fatigueVars>>

\* a call with new arguments, made while the table of the last call still
\* holds what was returned (after a write the caller repeats its call)
SetPeakCall ==
    /\ DerefTable(heap, call.table) = call.returned
    /\ \E tasks \in SeqsUpTo(TaskNames, MaxTasks), r \in Reductions :
        DoCall(tasks, r, NoCall)

\* the same call once more, with identical arguments
SetPeakCallAgain ==
    /\ call.made
    /\ DoCall(call.tasks, call.reduction, call)

\* the caller overwrites the power of one entry of the table it was given
CallerWrite ==
    /\ call.made /\ ~call.err
    /\ DerefTable(heap, call.table) = call.returned
    /\ \E l \in DOMAIN call.table : \E t \in DOMAIN call.table[l] :
          heap' = [heap EXCEPT ![call.table[l][t]][2] = 0]
    /\ UNCHANGED <<user_peak_params, call, prev, schedVars, fatigueVars>>

NextPeak == SetPeakCall \/ SetPeakCallAgain \/ CallerWrite

SpecPeak == InitPeak /\ [][NextPeak]_vars

\* ------------------------------------------------------------ generate_when
\* Python's round() and numpy's np.round(): to the nearest integer, a tie to
\* the even one (n >= 0, d > 0)
RoundHalfEven(n, d) ==
    LET q == n \div d
        m == n % d
    IN  IF 2 * m < d THEN q
        ELSE IF 2 * m > d THEN q + 1
        ELSE IF q % 2 = 0 THEN q ELSE q + 1

\* round(duration/1000*sfreq)
DurationSamples(ms, sf) == RoundHalfEven(ms * sf, 1000)

N_classes == Len(events_info)

\* lines 306-309: arange(N_classes) repeated int(N_trials/N_classes) times,
\* then shuffled: every arrangement of that many ids of each class
TrialsPermutations(nc, n) ==
    {s \in [1..(nc * (n \div nc)) -> 0..(nc - 1)] :
        \A c \in 0..(nc - 1) :
            Cardinality({j \in DOMAIN s : s[j] = c}) = n \div nc}

\* lines 318-327: np.zeros of one row per trial, one more per trial with
\* rest, one more with a baseline
EventsRows(n, rest, baseline) ==
    (IF rest THEN 2 * n ELSE n) + (IF baseline THEN 1 ELSE 0)

\* lines 305-334: the arguments are taken, the ids shuffled, the array
\* allocated and the baseline row written
GenerateWhen ==
    /\ pc = "idle"
    /\ \E nc \in 1..MaxClasses, n \in 1..MaxTrials, sf \in SfreqSet,
          rest \in BOOLEAN, baseline \in BOOLEAN :
        \E info \in [1..nc -> DurationsMs], perm \in TrialsPermutations(nc, n) :
          LET zeros == [j \in 1..EventsRows(n, rest, baseline) |-> <<0, 0, 0>>]
          IN  /\ events_info' = info
              /\ N_trials' = n
              /\ sfreq' = sf
              /\ include_rest' = rest
              /\ include_baseline' = baseline
              /\ trials_ID' = perm
              /\ IF baseline
                    THEN /\ events' = [zeros EXCEPT ![1] = <<0, 0, nc>>]
                         /\ current_time' = DurationSamples(baseline_duration, sf)
                         /\ cnt' = 1
                    ELSE /\ events' = zeros
                         /\ current_time' = 0
                         /\ cnt' = 0
    /\ pc' = "walk"
    /\ i' = 0
    /\ UNCHANGED <<peakVars, what, failed, fatigueVars>>

\* lines 336-350: one turn of the loop, the trial row and then its rest row
WalkTrial ==
    /\ pc = "walk"
    /\ i < Len(trials_ID)
    /\ LET event_ID == trials_ID[i + 1]
           after    == current_time +
                         DurationSamples(events_info[event_ID + 1], sfreq)
           row1     == [events EXCEPT ![cnt + 1] = <<current_time, 0, event_ID>>]
       IN  IF include_rest
             THEN /\ events' = [row1 EXCEPT
                                  ![cnt + 2] = <<after, 0, N_classes + 1>>]
                  /\ current_time' = after + DurationSamples(rest_duration, sfreq)
                  /\ cnt' = cnt + 2
             ELSE /\ events' = row1
                  /\ current_time' = after
                  /\ cnt' = cnt + 1
    /\ i' = i + 1
    /\ UNCHANGED <<pc, events_info, N_trials, sfreq, include_rest,
                   include_baseline, trials_ID, peakVars, what, failed,
                   fatigueVars>>

\* line 351
ReturnWhen ==
    /\ pc = "walk"
    /\ i = Len(trials_ID)
    /\ pc' = "when_returned"
    /\ UNCHANGED <<whenVars, peakVars, what, failed, fatigueVars>>

\* ------------------------------------------------------------ generate_what
\* the task lists of a given length: distinct task names, in any order
TaskLists(n) == {s \in [1..n -> TaskNames] : \A a, b \in 1..n : a # b => s[a] # s[b]}

Min(a, b) == IF a < b THEN a ELSE b

\* wave[t*N_samples_trial:(t+1)*N_samples_trial] of a wave of len samples:
\* a slice stops at the end of the array
Slice(wave, t, nst, len) ==
    [wave |-> wave, lo |-> Min(t * nst, len), hi |-> Min((t + 1) * nst, len)]

\* a row of np.empty that no assignment reached
Uninitialized == [wave |-> "uninitialized", lo |-> 0, hi |-> 0]

\* epoched[t] = slice: the slice must have the row's length, or length 1,
\* which numpy broadcasts; anything else raises ValueError
RowFits(row, nst) == (row.hi - row.lo = nst) \/ (row.hi - row.lo = 1)

\* line 121 and line 210
N_samples_trial_of(ms) == DurationSamples(ms, sfreq)
\* lines 122-123 and 211-212: from the onset of the LAST row of events
N_samples_class_of(ms, tasks) ==
    (events[Len(events)][1] + N_samples_trial_of(ms)) \div Len(tasks)
\* line 124 and line 213
N_trials_class_of(tasks) == N_trials \div Len(tasks)

\* lines 148-157: the rows of one (label, task)
WhatRows(ms, tasks) ==
    [t \in 1..N_trials_class_of(tasks) |->
        Slice("std", t - 1, N_samples_trial_of(ms), N_samples_class_of(ms, tasks))]

\* generate_what(MI_tasks, events, user_params, MI_duration, sfreq, N_trials,
\* reduction) on the events generate_when returned
GenerateWhat ==
    /\ pc = "when_returned"
    /\ \E tasks \in TaskLists(N_classes), ms \in Range(events_info),
          r \in Reductions :
        LET peak == SetPeakAmplitudes(heap, user_peak_params, tasks, r)
            rows == WhatRows(ms, tasks)
            err  == \/ peak.err
                    \/ \E t \in DOMAIN rows :
                          ~RowFits(rows[t], N_samples_trial_of(ms))
        IN  what' = [called |-> TRUE, err |-> err, MI_tasks |-> tasks,
                     MI_duration |-> ms,
                     epoched |-> IF err THEN NoTable
                                 ELSE [l \in DOMAIN peak.table |->
                                          [task \in Range(tasks) |-> rows]]]
    /\ pc' = "what_returned"
    /\ UNCHANGED <<whenVars, peakVars, failed, fatigueVars>>

\* ----------------------------------------------------- generate_what_failed
\* line 204: the rows whose class id is 0 or 1
MI_positions == {j \in DOMAIN events : events[j][3] \in {0, 1}}

\* line 205: int(p_failed*N_trials/2) draws
FailedCount(pf) == (pf * N_trials) \div 200

\* line 205: rng.choice(MI_positions, k) draws with replacement (the default)
FailedDraws(k) == [1..k -> MI_positions]

\* lines 257-258: the rows of events with the given class id, in row order
RECURSIVE RowsOfClass(_, _)
RowsOfClass(id, j) ==
    IF j > Len(events) THEN <<>>
    ELSE (IF events[j][3] = id THEN <<j>> ELSE <<>>) \o RowsOfClass(id, j + 1)

\* line 255: enumerate(MI_tasks, 1) numbers the tasks from 1
TaskID(pos) == pos

\* lines 252-269: the rows of one (label, task); desync says that the peak
\* of this label and task is the desynchronized one (line 237, line 262)
FailedRows(ms, tasks, pos, bad, desync) ==
    LET tmp == RowsOfClass(TaskID(pos), 1)
    IN  [t \in 1..N_trials_class_of(tasks) |->
            IF t > Len(tmp) THEN Uninitialized
            ELSE Slice(IF tmp[t] \in bad /\ desync THEN "wrong" ELSE "std",
                       t - 1, N_samples_trial_of(ms),
                       N_samples_class_of(ms, tasks))]

\* line 261-264: more events of the class than rows is an IndexError, a
\* slice of another length a ValueError
FailedRowsRaise(ms, tasks, pos) ==
    LET tmp == RowsOfClass(TaskID(pos), 1)
        len == N_samples_class_of(ms, tasks)
        nst == N_samples_trial_of(ms)
    IN  \/ Len(tmp) > N_trials_class_of(tasks)
        \/ \E t \in 1..Len(tmp) : ~RowFits(Slice("std", t - 1, nst, len), nst)

\* generate_what_failed(MI_tasks, events, user_params, MI_duration, sfreq,
\* N_trials, reduction, p_failed) on the events generate_when returned
GenerateWhatFailed ==
    /\ pc = "when_returned"
    /\ \E tasks \in TaskLists(N_classes), ms \in Range(events_info),
          r \in Reductions, pf \in FailedPercents :
        \E draws \in FailedDraws(FailedCount(pf)) :
          LET peak == SetPeakAmplitudes(heap, user_peak_params, tasks, r)
              bad  == Range(draws)
              desync(l, task) ==
                  peak.heap[peak.table[l][task]][2] = Reduced(r)
              err  == \/ peak.err
                      \/ \E pos \in DOMAIN tasks : FailedRowsRaise(ms, tasks, pos)
          IN  failed' = [called |-> TRUE, err |-> err, MI_tasks |-> tasks,
                         MI_duration |-> ms, reduction |-> r, p_failed |-> pf,
                         bad |-> bad,
                         epoched |-> IF err THEN NoTable
                             ELSE [l \in DOMAIN peak.table |->
                                     [task \in Range(tasks) |->
                                        FailedRows(ms, tasks,
                                            IndexIn(tasks, task), bad,
                                            desync(l, task))]]]
    /\ pc' = "failed_returned"
    /\ UNCHANGED <<whenVars, peakVars, what, fatigueVars>>

\* the script starts with the full base table and nothing scheduled
Init ==
    /\ user_peak_params = [l \in Range(LabelOrder) |-> IndexIn(LabelOrder, l)]
    /\ heap = [x \in 1..Len(LabelOrder) |-> BaseTriple(LabelOrder[x])]
    /\ call = NoCall
    /\ prev = NoCall
    /\ SchedIdle
    /\ FatigueIdle

Next == GenerateWhen \/ WalkTrial \/ ReturnWhen \/ GenerateWhat
            \/ GenerateWhatFailed

Spec == Init /\ [][Next]_vars

\* ------------------------------------------------- theta and alpha activity

\* fractions of the session at which fatigue starts, in percent
FatigueStarts == {25, 50, 70}

\* the increase dynamics theta_activity and alpha_activity name
Dynamics == {"linear", "constant"}

\* scale values as exact fractions <<numerator, denominator>>
Scales == {<<1, 2>>, <<1, 1>>, <<2, 1>>}

\* the default of the scale parameter
DefaultScale == <<1, 1>>

\* equality of two fractions
RatEq(a, b) == a[1] * b[2] = b[1] * a[2]

\* np.linspace(0, stop, N): N evenly spaced multipliers from 0 to stop
Linspace(stop, N) ==
    [k \in 1..N |-> IF N = 1 THEN <<0, 1>>
                    ELSE <<(k - 1) * stop[1], (N - 1) * stop[2]>>]

\* a waveform that is left as filtered
Unscaled(N) == [k \in 1..N |-> <<1, 1>>]

\* theta_activity with the envelope applied whatever the scale is
ThetaMaskUnguarded(N_samples, increase_dynamic, scale) ==
    IF increase_dynamic = "linear" THEN Linspace(scale, N_samples)
    ELSE IF increase_dynamic = "constant"
         THEN [k \in 1..N_samples |-> scale]
         ELSE Unscaled(N_samples)

\* the multiplier theta_activity applies to each filtered sample
ThetaMask(N_samples, increase_dynamic, scale) ==
    IF ~RatEq(scale, <<1, 1>>)
      THEN IF increase_dynamic = "linear" THEN Linspace(scale, N_samples)
           ELSE IF increase_dynamic = "constant"
                THEN [k \in 1..N_samples |-> scale]
                ELSE Unscaled(N_samples)
      ELSE Unscaled(N_samples)

\* the multiplier alpha_activity applies to each filtered sample
AlphaMask(N_samples, increase_dynamic, scale) ==
    IF ~RatEq(scale, <<1, 1>>)
      THEN IF increase_dynamic = "linear" THEN Linspace(scale, N_samples)
           ELSE IF increase_dynamic = "constant"
                THEN [k \in 1..N_samples |-> scale]
                ELSE Unscaled(N_samples)
      ELSE Unscaled(N_samples)

\* what theta_activity returns: the band, the length and the envelope
theta_activity(N_samples, increase_dynamic, scale) ==
    [rhythm |-> "theta", N |-> N_samples,
     increase_dynamic |-> increase_dynamic, scale |-> scale,
     mask |-> ThetaMask(N_samples, increase_dynamic, scale)]

\* what alpha_activity returns: the band, the length and the envelope
alpha_activity(N_samples, increase_dynamic, scale) ==
    [rhythm |-> "alpha", N |-> N_samples,
     increase_dynamic |-> increase_dynamic, scale |-> scale,
     mask |-> AlphaMask(N_samples, increase_dynamic, scale)]

\* ------------------------------------ add_basal_theta_alpha, add_fatigue_effect

\* the product fatigue_start*n_times rounded to the nearest integer
RoundedAlertSamples(start, total) == RoundHalfEven(start * total, 100)

\* int(fatigue_start*source_simulator.n_times) in add_basal_theta_alpha
BasalAlertSamples(start, total) == (start * total) \div 100

\* int(fatigue_start*source_simulator.n_times) in add_fatigue_effect
FatigueAlertSamples(start, total) == (start * total) \div 100

\* n_times - N_samples_alert
FatigueSamples(total, N_samples_alert) == total - N_samples_alert

\* read_labels_from_annot(...)[0]: the label of a region in a hemisphere
read_labels_from_annot(hemi, regexp) == <<regexp, hemi>>

\* select_sources(subject, label, location='center', extent=extent)
select_sources(label, extent) == <<label[1], label[2], extent>>

\* one add_data call
Registration(hemi, regexp, extent, wave, event) ==
    [label |-> select_sources(read_labels_from_annot(hemi, regexp), extent),
     what |-> wave, event |-> event]

\* the patches add_basal_theta_alpha asks for, in the order of its calls
BasalTargets ==
    << [rhythm |-> "alpha", hemi |-> "rh",
        regexp |-> "G_and_S_paracentral", extent |-> 5],
       [rhythm |-> "alpha", hemi |-> "lh",
        regexp |-> "G_and_S_paracentral", extent |-> 5],
       [rhythm |-> "theta", hemi |-> "rh",
        regexp |-> "G_front_sup", extent |-> 10],
       [rhythm |-> "theta", hemi |-> "lh",
        regexp |-> "G_front_sup", extent |-> 10] >>

\* the patches add_fatigue_effect asks for, in the order of its calls
FatigueTargets ==
    << [rhythm |-> "alpha", hemi |-> "rh",
        regexp |-> "G_and_S_paracentral", extent |-> 10],
       [rhythm |-> "alpha", hemi |-> "lh",
        regexp |-> "G_and_S_paracentral", extent |-> 10],
       [rhythm |-> "theta", hemi |-> "lh",
        regexp |-> "G_front_sup", extent |-> 10],
       [rhythm |-> "theta", hemi |-> "rh",
        regexp |-> "G_front_sup", extent |-> 10] >>

\* the add_data calls of one function: each target with its band's waveform
Registrations(targets, alpha, theta, event) ==
    [k \in DOMAIN targets |->
        Registration(targets[k].hemi, targets[k].regexp, targets[k].extent,
                     IF targets[k].rhythm = "alpha" THEN alpha ELSE theta,
                     event)]

\* add_basal_theta_alpha(source_simulator, fatigue_start, subject)
AddBasalThetaAlpha ==
    /\ fpc = "start"
    /\ LET event == <<0, 0, 4>>
           N_samples_alert == BasalAlertSamples(fatigue_start, n_times)
           alpha == alpha_activity(N_samples_alert, "linear", DefaultScale)
           theta == theta_activity(N_samples_alert, "linear", DefaultScale)
       IN  registered' = registered \o
               Registrations(BasalTargets, alpha, theta, event)
    /\ fpc' = "basal"
    /\ UNCHANGED <<n_times, fatigue_start, peakVars, schedVars>>

\* add_fatigue_effect(source_simulator, fatigue_start, subject,
\*                    increase_dynamic, alpha_scale, theta_scale)
AddFatigueEffect ==
    /\ fpc = "basal"
    /\ \E increase_dynamic \in Dynamics, alpha_scale \in Scales,
          theta_scale \in Scales :
         LET N_samples_alert == FatigueAlertSamples(fatigue_start, n_times)
             event == <<N_samples_alert, 0, 5>>
             N_samples_fatigue == FatigueSamples(n_times, N_samples_alert)
             alpha == alpha_activity(N_samples_fatigue, increase_dynamic,
                                     alpha_scale)
             theta == theta_activity(N_samples_fatigue, increase_dynamic,
                                     theta_scale)
         IN  registered' = registered \o
                 Registrations(FatigueTargets, alpha, theta, event)
    /\ fpc' = "fatigue"
    /\ UNCHANGED <<n_times, fatigue_start, peakVars, schedVars>>

\* a source simulator of any length, a fatigue start, nothing registered
InitFatigue ==
    /\ user_peak_params = [l \in Range(LabelOrder) |-> IndexIn(LabelOrder, l)]
    /\ heap = [x \in 1..Len(LabelOrder) |-> BaseTriple(LabelOrder[x])]
    /\ call = NoCall
    /\ prev = NoCall
    /\ SchedIdle
    /\ fpc = "start"
    /\ n_times \in 1..MaxTimes
    /\ fatigue_start \in FatigueStarts
    /\ registered = <<>>

NextFatigue == AddBasalThetaAlpha \/ AddFatigueEffect

SpecFatigue == InitFatigue /\ [][NextFatigue]_vars

\* ------------------------------------------------ claims on the resolver
Returned == call.made /\ ~call.err
Requested(t) == t \in Range(call.tasks)
\* the returned table has the entry (l, t) and its relative power is v
HasPower(l, t, v) ==
    /\ l \in DOMAIN call.returned
    /\ t \in DOMAIN call.returned[l]
    /\ call.returned[l][t][2] = v

\* C8: in the table set_peak_amplitudes returns, G_precentral-rh/MI/left is
\* 0.4*(1-r) and G_precentral-lh/MI/left is 0.4 when MI/left is requested,
\* G_precentral-lh/MI/right is 0.4*(1-r) and G_precentral-rh/MI/right is 0.4
\* when MI/right is requested, and both precentral labels are 0.4 for rest
\* when rest is requested, whatever other tasks are requested with them.
C8_LateralityValues ==
    Returned =>
        /\ Requested("MI/left") =>
              /\ HasPower(RH, "MI/left", (PowerRef * (100 - call.reduction)) \div 100)
              /\ HasPower(LH, "MI/left", PowerRef)
        /\ Requested("MI/right") =>
              /\ HasPower(LH, "MI/right", (PowerRef * (100 - call.reduction)) \div 100)
              /\ HasPower(RH, "MI/right", PowerRef)
        /\ Requested("rest") =>
              /\ HasPower(LH, "rest", PowerRef)
              /\ HasPower(RH, "rest", PowerRef)

\* two tasks were requested together and each got its own values
C8_Witness ==
    /\ Returned
    /\ Requested("MI/right") /\ Requested("rest")
    /\ call.reduction = 25
    /\ HasPower(LH, "MI/right", 300) /\ HasPower(LH, "rest", 400)
    /\ HasPower(RH, "MI/right", 400) /\ HasPower(RH, "rest", 400)

BaseUnchanged ==
    \A l \in DOMAIN user_peak_params :
        heap[user_peak_params[l]] = BaseTriple(l)

Entries(table) == UNION {{l} \X DOMAIN table[l] : l \in DOMAIN table}

\* the entries of the returned table whose list no longer holds what was
\* returned
ChangedEntries ==
    {e \in Entries(call.table) :
        heap[call.table[e[1]][e[2]]] # call.returned[e[1]][e[2]]}

\* C9: set_peak_amplitudes leaves the base table unchanged; every (label,
\* task) entry is a list of its own (no two entries share a list, none is a
\* base list, and a write to one entry changes no other entry); every value
\* the function does not set (center frequency, bandwidth, every
\* non-precentral label) equals the base value; and a second call with the
\* same arguments returns an equal table.
C9_FrameAndIdempotence ==
    /\ BaseUnchanged
    /\ Returned =>
          /\ TableRefs(call.table) \cap BaseRefs = {}
          /\ Cardinality(TableRefs(call.table)) =
                Cardinality(Entries(call.table))
          /\ Cardinality(ChangedEntries) <= 1
          /\ \A e \in Entries(call.table) :
                LET got  == call.returned[e[1]][e[2]]
                    base == BaseTriple(e[1])
                IN  /\ got[1] = base[1]
                    /\ got[3] = base[3]
                    /\ e[1] \notin {LH, RH} => got = base
    /\ prev.made =>
          /\ call.err = prev.err
          /\ call.returned = prev.returned

\* a table of four entries or more was returned, the caller wrote into one
\* entry of it, and the same call made again returned an equal table
C9_Witness ==
    /\ Returned /\ prev.made /\ ~prev.err /\ prev.written
    /\ Cardinality(Entries(call.table)) >= 4
    /\ Requested("MI/left")
    /\ call.returned = prev.returned

PrecentralMissing ==
    LH \notin DOMAIN user_peak_params \/ RH \notin DOMAIN user_peak_params

\* C10 as stated: whenever G_precentral-lh or G_precentral-rh is absent from
\* the base table, set_peak_amplitudes fails, returns no table and leaves
\* the base table unmodified, for every task list over MI/left, MI/right,
\* rest.
C10_Original ==
    (call.made /\ PrecentralMissing) =>
        /\ call.err
        /\ call.table = NoTable
        /\ BaseUnchanged

\* C10: whenever G_precentral-lh or G_precentral-rh is absent from the base
\* table and at least one task is requested, set_peak_amplitudes fails,
\* returns no table and leaves the base table unmodified; with no task
\* requested it returns a table without raising.
C10_MissingLabelFails ==
    (call.made /\ PrecentralMissing) =>
        /\ call.err <=> call.tasks # <<>>
        /\ call.err => call.table = NoTable
        /\ BaseUnchanged

\* only the second label of the rule is missing: the first write succeeds
\* and the second raises
C10_Witness ==
    /\ call.made /\ call.err
    /\ LH \in DOMAIN user_peak_params
    /\ RH \notin DOMAIN user_peak_params
    /\ call.tasks = <<"MI/left">>
    /\ call.table = NoTable
    /\ BaseUnchanged

\* ------------------------------------------------ claims on the scheduler
WhenReturned == pc \in {"when_returned", "what_returned", "failed_returned"}

TaskClassIds == 0..(N_classes - 1)

\* C1: the onsets of the array generate_when returns increase strictly from
\* each row to the next, over all its rows, for every N_classes, N_trials and
\* combination of include_baseline and include_rest.
C1_OnsetsIncrease ==
    WhenReturned =>
        \A j \in 1..(Len(events) - 1) : events[j][1] < events[j + 1][1]

\* C2: the array generate_when returns has N_trials + include_baseline +
\* include_rest * N_trials rows, and the walk has written every one of them
\* (cnt ends equal to the number of rows).
C2_RowsAllWritten ==
    WhenReturned =>
        /\ Len(events) = N_trials + (IF include_baseline THEN 1 ELSE 0)
                                  + (IF include_rest THEN N_trials ELSE 0)
        /\ cnt = Len(events)

\* the rows the walk writes for the baseline and for the rests
BaselineRows == IF include_baseline THEN {1} ELSE {}
RestRows ==
    IF include_rest
        THEN {(IF include_baseline THEN 1 ELSE 0) + 2 * k : k \in 1..Len(trials_ID)}
        ELSE {}

\* C3: whatever permutation is drawn, each task class id 0..N_classes-1 is
\* the class id of exactly N_trials/N_classes rows of the returned array,
\* and no baseline or rest row carries a task class id.
C3_BalancedClasses ==
    WhenReturned =>
        /\ \A c \in TaskClassIds :
              Cardinality({j \in DOMAIN events : events[j][3] = c})
                  = N_trials \div N_classes
        /\ \A j \in BaselineRows \cup RestRows : events[j][3] \notin TaskClassIds

\* the rounded length in samples of the segment a row stands for
SegmentSamples(row) ==
    IF row[3] = N_classes THEN DurationSamples(baseline_duration, sfreq)
    ELSE IF row[3] = N_classes + 1 THEN DurationSamples(rest_duration, sfreq)
    ELSE DurationSamples(events_info[row[3] + 1], sfreq)

RECURSIVE SamplesBefore(_)
SamplesBefore(j) ==
    IF j <= 1 THEN 0 ELSE SamplesBefore(j - 1) + SegmentSamples(events[j - 1])

\* C4: with include_baseline exactly one baseline row (class id N_classes)
\* is emitted, first and at onset 0; with include_rest every trial row is
\* followed at once by a rest row (class id N_classes+1) whose onset is the
\* trial's onset plus round(trial_duration/1000*sfreq); and the onset of
\* each row is the sum of the rounded durations of the segments before it.
C4_WalkLayout ==
    WhenReturned =>
        /\ include_baseline =>
              /\ events[1] = <<0, 0, N_classes>>
              /\ Cardinality({j \in DOMAIN events : events[j][3] = N_classes}) = 1
        /\ include_rest =>
              \A j \in DOMAIN events :
                  events[j][3] \in TaskClassIds =>
                      /\ j + 1 \in DOMAIN events
                      /\ events[j + 1][3] = N_classes + 1
                      /\ events[j + 1][1] =
                            events[j][1] + SegmentSamples(events[j])
        /\ \A j \in DOMAIN events : events[j][1] = SamplesBefore(j)

\* C5: for every N_trials, divisible by the number of tasks or not, and
\* events made by generate_when for the same tasks, N_trials, sfreq and
\* MI_duration, generate_what returns without error, for every label and
\* task, N_trials // N_classes rows of round(MI_duration/1000*sfreq) samples,
\* row t being the block [t*N_samples_trial, (t+1)*N_samples_trial) of the
\* continuous signal.
C5_WhatShape ==
    (what.called /\ \A c \in DOMAIN events_info :
                        events_info[c] = what.MI_duration) =>
        /\ ~what.err
        /\ \A l \in Range(LabelOrder) : \A task \in Range(what.MI_tasks) :
              LET rows == what.epoched[l][task]
                  nst  == RoundHalfEven(what.MI_duration * sfreq, 1000)
              IN  /\ Len(rows) = N_trials \div N_classes
                  /\ \A t \in DOMAIN rows :
                        rows[t] = [wave |-> "std", lo |-> (t - 1) * nst,
                                   hi |-> t * nst]

\* the rows the walk writes for the trials
TrialRows ==
    {(IF include_baseline THEN 1 ELSE 0)
        + (IF include_rest THEN 2 * k - 1 ELSE k) : k \in 1..Len(trials_ID)}

\* C6: generate_what_failed flags round(p_failed * N_trials / 2) events,
\* all distinct, and every flagged row is a motor-imagery row of the
\* timeline, never a rest or baseline row.
C6_BadTrials ==
    failed.called =>
        /\ Cardinality(failed.bad) =
              RoundHalfEven(failed.p_failed * N_trials, 200)
        /\ failed.bad \subseteq TrialRows

\* C7: in what generate_what_failed returns, for every label, task and k in
\* 0..N_trials//N_classes-1, epoch k is block k of the no-modulation wave if
\* the k-th event whose class id is the task's position in the task list
\* (from 0) is flagged bad and the peak of the label and task is the
\* desynchronized one, and block k of the standard wave otherwise; no row is
\* left unassigned.
C7_FailedEpochs ==
    (failed.called /\ ~failed.err) =>
        LET peak == SetPeakAmplitudes(heap, user_peak_params,
                                      failed.MI_tasks, failed.reduction)
            nst  == RoundHalfEven(failed.MI_duration * sfreq, 1000)
        IN  \A l \in Range(LabelOrder) : \A pos \in DOMAIN failed.MI_tasks :
              LET task == failed.MI_tasks[pos]
                  rows == failed.epoched[l][task]
                  evs  == RowsOfClass(pos - 1, 1)
                  desync == peak.heap[peak.table[l][task]][2] =
                              (PowerRef * (100 - failed.reduction)) \div 100
              IN  /\ Len(rows) = N_trials \div N_classes
                  /\ \A k \in DOMAIN rows :
                        rows[k] =
                          [wave |-> IF k <= Len(evs) /\ evs[k] \in failed.bad
                                         /\ desync
                                      THEN "wrong" ELSE "std",
                           lo |-> (k - 1) * nst, hi |-> k * nst]

\* ---------------------------------------- claims on the fatigue modulator

\* the add_data calls made against the alert event and the fatigue event
AlertRegs == {k \in DOMAIN registered : registered[k].event[3] = 4}
FatigueRegs == {k \in DOMAIN registered : registered[k].event[3] = 5}

\* the waveform's multipliers are i/(N-1)*scale, i counted from 0
LinearEnvelope(w) ==
    /\ Len(w.mask) = w.N
    /\ \A k \in DOMAIN w.mask :
          RatEq(w.mask[k], <<(k - 1) * w.scale[1], (w.N - 1) * w.scale[2]>>)
    /\ RatEq(w.mask[1], <<0, 1>>)
    /\ RatEq(w.mask[w.N], w.scale)

\* every multiplier of the waveform is the fraction m
UniformEnvelope(w, m) ==
    /\ Len(w.mask) = w.N
    /\ \A k \in DOMAIN w.mask : RatEq(w.mask[k], m)

\* C11 as stated: for every registered theta or alpha waveform of N >= 2
\* samples and any scale, scale 1 included, the linear multiplier of sample i
\* is i/(N-1)*scale (0 at the first sample, scale at the last) and the
\* constant multiplier is scale at every sample.
C11_Original ==
    \A r \in DOMAIN registered :
        LET w == registered[r].what
        IN  /\ (w.increase_dynamic = "linear" /\ w.N >= 2)
                  => LinearEnvelope(w)
            /\ w.increase_dynamic = "constant" => UniformEnvelope(w, w.scale)

\* C11: for every registered theta or alpha waveform of N samples, with a
\* scale other than 1 the linear multiplier of sample i is i/(N-1)*scale when
\* N >= 2 (0 at the first sample, scale at the last) and 0 when N = 1, and the
\* constant multiplier is scale at every sample; with scale 1 the multiplier
\* is 1 at every sample in either mode, the waveform is left as filtered.
C11_Envelope ==
    \A r \in DOMAIN registered :
        LET w == registered[r].what
            scaled == ~RatEq(w.scale, <<1, 1>>)
        IN  /\ (scaled /\ w.increase_dynamic = "linear" /\ w.N >= 2)
                  => LinearEnvelope(w)
            /\ (scaled /\ w.increase_dynamic = "linear" /\ w.N < 2)
                  => UniformEnvelope(w, <<0, 1>>)
            /\ (scaled /\ w.increase_dynamic = "constant")
                  => UniformEnvelope(w, w.scale)
            /\ ~scaled => UniformEnvelope(w, <<1, 1>>)

\* a linear ramp to scale 2 over three samples or more is registered beside a
\* linear waveform of scale 1 whose first sample keeps multiplier 1
C11_Witness ==
    /\ fpc = "fatigue"
    /\ \E r \in FatigueRegs :
          LET w == registered[r].what
          IN  /\ w.increase_dynamic = "linear" /\ w.scale = <<2, 1>>
              /\ w.N >= 3
              /\ w.mask[1][1] = 0
              /\ RatEq(w.mask[2], <<2, w.N - 1>>)
              /\ RatEq(w.mask[w.N], <<2, 1>>)
    /\ \E r \in AlertRegs :
          LET w == registered[r].what
          IN  /\ w.increase_dynamic = "linear" /\ w.scale = <<1, 1>>
              /\ w.N >= 2
              /\ w.mask[1] = <<1, 1>>

\* C12: once add_basal_theta_alpha and add_fatigue_effect have run on a
\* session of n_times samples, the length of every alert waveform plus the
\* length of every fatigue waveform is n_times, and the onset of the fatigue
\* event is the length of the alert waveforms.
C12_Partition ==
    fpc = "fatigue" =>
        /\ AlertRegs # {} /\ FatigueRegs # {}
        /\ \A a \in AlertRegs : \A b \in FatigueRegs :
              /\ registered[a].what.N + registered[b].what.N = n_times
              /\ registered[b].event[1] = registered[a].what.N
              /\ Len(registered[a].what.mask) + Len(registered[b].what.mask)
                    = n_times

\* 70 percent of 7 samples: 4 alert samples, 3 fatigue samples from sample 4
C12_Witness ==
    /\ fpc = "fatigue" /\ n_times = 7 /\ fatigue_start = 70
    /\ \E a \in AlertRegs : \E b \in FatigueRegs :
          /\ registered[a].what.N = 4
          /\ registered[b].what.N = 3
          /\ registered[b].event = <<4, 0, 5>>

\* C13 as stated: the alert length and the onset of the class-5 event are
\* fatigue_start*n_times rounded to the nearest integer, and the alert
\* waveforms are registered against event (0, 0, 4).
C13_Original ==
    /\ \A a \in AlertRegs :
          /\ registered[a].what.N =
                RoundHalfEven(fatigue_start * n_times, 100)
          /\ registered[a].event = <<0, 0, 4>>
    /\ \A b \in FatigueRegs :
          registered[b].event[1] = RoundHalfEven(fatigue_start * n_times, 100)

\* C13: the alert length and the onset of the class-5 event are
\* fatigue_start*n_times truncated to its integer part, and the alert
\* waveforms are registered against event (0, 0, 4).
C13_OnsetTruncated ==
    /\ fpc \in {"basal", "fatigue"} => Cardinality(AlertRegs) = Len(BasalTargets)
    /\ \A a \in AlertRegs :
          /\ registered[a].what.N = (fatigue_start * n_times) \div 100
          /\ registered[a].event = <<0, 0, 4>>
    /\ \A b \in FatigueRegs :
          registered[b].event = <<(fatigue_start * n_times) \div 100, 0, 5>>

\* 70 percent of 5 samples is 3.5: the onset is sample 3, the nearest
\* integer would be 4
C13_Witness ==
    /\ fpc = "fatigue" /\ n_times = 5 /\ fatigue_start = 70
    /\ RoundHalfEven(fatigue_start * n_times, 100) = 4
    /\ \E a \in AlertRegs : registered[a].what.N = 3
    /\ \E b \in FatigueRegs : registered[b].event = <<3, 0, 5>>

\* C14: once both functions have run, the alert registration and the fatigue
\* registration of the same rhythm and hemisphere carry the patch of one and
\* the same (region, hemisphere, extent) request.
C14_SameRequest ==
    fpc = "fatigue" =>
        \A a \in AlertRegs : \A b \in FatigueRegs :
            ( /\ registered[a].what.rhythm = registered[b].what.rhythm
              /\ registered[a].label[2] = registered[b].label[2] )
                => registered[a].label = registered[b].label

====
